---- MODULE Spec2Model ----
(***************************************************************************)
(* Document Genie (src/streamlit_App.py): a Streamlit script that extracts *)
(* the text of uploaded PDF files, splits it into chunks, stores the       *)
(* chunks in a FAISS index folder on disk ("faiss_index") and answers      *)
(* questions from that index.                                              *)
(*                                                                         *)
(* A text is a sequence of one-character strings.  A chunk is kept both as *)
(* a string and as the window [lo, hi) of the text it was cut from, so     *)
(* that the overlap of two chunks is a matter of positions.                *)
(***************************************************************************)
EXTENDS Integers, Sequences, FiniteSets, TLC

VARIABLES
    pc,             \* position of the script run: "idle", "query", "process"
                    \* (and "split"/"extract"/"done" in the function specs)
    api_key,        \* st.text_input "api_key_input" (line 36)
    user_question,  \* st.text_input "user_question" (line 120)
    pdf_docs,       \* st.file_uploader "pdf_uploader" (line 128)
    button,         \* st.button "process_button" (line 134)
    index,          \* the folder faiss_index on disk
    index0,         \* history: the folder as it was when the run started
    display,        \* what the run has put on the page, in order
    log,            \* what the run has sent to the logger, in order
    calls,          \* the library/API calls the run has made, in order
    raw_text,       \* main's raw_text (line 137)
    text_chunks,    \* main's text_chunks (line 138)
    chunk_windows   \* ghost: the window of raw_text each chunk was cut from

vars == <<pc, api_key, user_question, pdf_docs, button, index, index0,
          display, log, calls, raw_text, text_chunks, chunk_windows>>

-----------------------------------------------------------------------------
(* Bounds of the model.                                                    *)

\* The source configures chunk_size=10000, chunk_overlap=1000 (line 55).
\* The model runs the splitter with both scaled down (overlap < size kept),
\* so that texts of a few characters are split, merged and overlapped.
chunk_size == 4
chunk_overlap == 1

MaxLen == 6      \* longest text given to the splitter
MaxDocs == 2     \* most documents given to get_pdf_text
MaxPages == 2    \* most pages of one document

-----------------------------------------------------------------------------
(* Texts.                                                                  *)

SP == " "
NL == "\n"
Chars == {"a", SP, NL}
Whitespace == {SP, NL}

SeqsUpTo(S, n) == UNION {[1..k -> S] : k \in 0..n}

Texts == SeqsUpTo(Chars, MaxLen)

Win(lo, hi) == [lo |-> lo, hi |-> hi]
WinLen(w) == w.hi - w.lo
WinText(text, w) == SubSeq(text, w.lo + 1, w.hi)

-----------------------------------------------------------------------------
(* RecursiveCharacterTextSplitter(chunk_size, chunk_overlap).split_text,   *)
(* with the library's defaults: separators "\n\n", "\n", " ", "" tried in  *)
(* that order, keep_separator=True (a separator stays at the start of the  *)
(* piece that follows it, and pieces are joined with the empty string, so  *)
(* the joining separator has length 0), strip_whitespace=True.             *)

separators == << <<NL, NL>>, <<NL>>, <<SP>>, <<>> >>

\* sep occurs in text at offset p, inside the window w
OccursAt(text, w, sep, p) ==
    /\ p >= w.lo
    /\ p + Len(sep) <= w.hi
    /\ \A k \in 1..Len(sep) : text[p + k] = sep[k]

\* re.search(separator, text)
re_search(text, w, sep) ==
    \E p \in w.lo..(w.hi - 1) : OccursAt(text, w, sep, p)

\* the offsets where re.split finds the separator: leftmost first, not
\* overlapping
RECURSIVE re_matches(_, _, _, _)
re_matches(text, w, sep, p) ==
    IF p + Len(sep) > w.hi THEN <<>>
    ELSE IF OccursAt(text, w, sep, p)
         THEN <<p>> \o re_matches(text, w, sep, p + Len(sep))
         ELSE re_matches(text, w, sep, p + 1)

\* the pieces between consecutive cut offsets, the empty ones dropped
RECURSIVE pieces(_, _, _)
pieces(lo, cuts, hi) ==
    IF cuts = <<>>
    THEN IF lo < hi THEN <<Win(lo, hi)>> ELSE <<>>
    ELSE LET rest == pieces(Head(cuts), Tail(cuts), hi)
         IN  IF lo < Head(cuts) THEN <<Win(lo, Head(cuts))>> \o rest ELSE rest

\* _split_text_with_regex(text, separator, keep_separator=True)
split_text_with_regex(text, w, sep) ==
    IF sep # <<>>
    THEN pieces(w.lo, re_matches(text, w, sep, w.lo), w.hi)
    ELSE [i \in 1..WinLen(w) |-> Win(w.lo + i - 1, w.lo + i)]

\* str.strip() of the window
RECURSIVE lstrip(_, _)
lstrip(text, w) ==
    IF w.lo < w.hi /\ text[w.lo + 1] \in Whitespace
    THEN lstrip(text, Win(w.lo + 1, w.hi))
    ELSE w

RECURSIVE rstrip(_, _)
rstrip(text, w) ==
    IF w.lo < w.hi /\ text[w.hi] \in Whitespace
    THEN rstrip(text, Win(w.lo, w.hi - 1))
    ELSE w

\* _join_docs(docs, ""): the pieces are adjacent, so their join is the window
\* from the first to the last; stripped; an empty result is None (<<>> here)
join_docs(text, docs) ==
    IF docs = <<>> THEN <<>>
    ELSE LET w == rstrip(text, lstrip(text, Win(docs[1].lo, docs[Len(docs)].hi)))
         IN  IF w.lo = w.hi THEN <<>> ELSE <<w>>

\* the while loop of _merge_splits: drop pieces from the front of current_doc
\* until what is left is within the overlap and the next piece fits
\* variant: the loop drops nothing
merge_pop_keep_all(cur, total, len) == [cur |-> cur, total |-> total]

RECURSIVE merge_pop(_, _, _)
merge_pop(cur, total, len) ==
    IF total > chunk_overlap \/ (total + len > chunk_size /\ total > 0)
    THEN merge_pop(Tail(cur), total - WinLen(Head(cur)), len)
    ELSE [cur |-> cur, total |-> total]

\* _merge_splits(splits, ""), from piece i on
RECURSIVE merge_from(_, _, _, _, _)
merge_from(text, splits, i, cur, total) ==
    IF i > Len(splits) THEN join_docs(text, cur)
    ELSE LET d == splits[i]
             len == WinLen(d)
         IN  IF total + len > chunk_size /\ cur # <<>>
             THEN LET kept == merge_pop(cur, total, len)
                  IN  join_docs(text, cur)
                      \o merge_from(text, splits, i + 1,
                                    Append(kept.cur, d), kept.total + len)
             ELSE merge_from(text, splits, i + 1, Append(cur, d), total + len)

merge_splits(text, splits) == merge_from(text, splits, 1, <<>>, 0)

\* the first separator that is "" or occurs in the text
RECURSIVE pick_separator(_, _, _, _)
pick_separator(text, w, seps, i) ==
    IF i > Len(seps) THEN [sep |-> seps[Len(seps)], rest |-> <<>>]
    ELSE IF seps[i] = <<>> THEN [sep |-> <<>>, rest |-> <<>>]
    ELSE IF re_search(text, w, seps[i])
         THEN [sep |-> seps[i], rest |-> SubSeq(seps, i + 1, Len(seps))]
         ELSE pick_separator(text, w, seps, i + 1)

\* _split_text(text, separators): pieces shorter than chunk_size are merged,
\* a longer piece flushes what was collected and is split again with the
\* separators that are left
RECURSIVE split_text_in(_, _, _)
RECURSIVE split_loop(_, _, _, _, _)
split_loop(text, splits, i, good, rest) ==
    IF i > Len(splits)
    THEN IF good # <<>> THEN merge_splits(text, good) ELSE <<>>
    ELSE LET s == splits[i]
         IN  IF WinLen(s) < chunk_size
             THEN split_loop(text, splits, i + 1, Append(good, s), rest)
             ELSE (IF good # <<>> THEN merge_splits(text, good) ELSE <<>>)
                  \o (IF rest = <<>> THEN <<s>> ELSE split_text_in(text, s, rest))
                  \o split_loop(text, splits, i + 1, <<>>, rest)

split_text_in(text, w, seps) ==
    LET pick == pick_separator(text, w, seps, 1)
    IN  split_loop(text, split_text_with_regex(text, w, pick.sep), 1, <<>>,
                   pick.rest)

\* split_text(text), as the windows of the text
split_text(text) == split_text_in(text, Win(0, Len(text)), separators)

\* get_text_chunks(text) (lines 53-57)
get_text_chunks(text) ==
    LET W == split_text(text)
    IN  [i \in 1..Len(W) |-> WinText(text, W[i])]

-----------------------------------------------------------------------------
(* get_pdf_text (lines 42-48).  A document is the sequence of its pages; a  *)
(* page is what page.extract_text() returns for it: None or a string.      *)

NonePage == [none |-> TRUE, text |-> <<>>]
Page(t) == [none |-> FALSE, text |-> t]

\* page.extract_text() or ""   (line 47)
\* variant: a line break is put after each page's text
page_text_with_newline(page) ==
    IF page.none \/ page.text = <<>> THEN <<>> ELSE page.text \o <<NL>>

page_text(page) == IF page.none \/ page.text = <<>> THEN <<>> ELSE page.text

\* for page in pdf_reader.pages: text += ...   (lines 46-47)
RECURSIVE read_pages(_, _, _)
read_pages(text, pages, i) ==
    IF i > Len(pages) THEN text
    ELSE read_pages(text \o page_text(pages[i]), pages, i + 1)

\* for pdf in pdf_docs: ...   (lines 44-47)
RECURSIVE read_docs(_, _, _)
read_docs(text, docs, i) ==
    IF i > Len(docs) THEN text
    ELSE read_docs(read_pages(text, docs[i], 1), docs, i + 1)

get_pdf_text(docs) == read_docs(<<>>, docs, 1)

-----------------------------------------------------------------------------
(* The folder faiss_index.  FAISS.save_local writes index.faiss and        *)
(* index.pkl into it; FAISS.load_local reads index.faiss with              *)
(* faiss.read_index and then unpickles index.pkl.                          *)

AbsentIndex == [faiss |-> FALSE, pkl |-> "absent", texts |-> <<>>]
OkIndex(chunks) == [faiss |-> TRUE, pkl |-> "ok", texts |-> chunks]

\* What a deployment can find on disk before its first processing run:
\* nothing, a folder whose index.pkl is gone, or a folder written by an
\* incompatible version of the libraries.
InitialIndexes ==
    { AbsentIndex,
      [faiss |-> TRUE, pkl |-> "absent", texts |-> <<>>],
      [faiss |-> TRUE, pkl |-> "unreadable", texts |-> <<>>] }

\* FAISS.load_local("faiss_index", ...) (lines 96-97): the exception it
\* raises, or "ok".  faiss.read_index comes first and reports a file it
\* cannot open as RuntimeError; open() of index.pkl raises
\* FileNotFoundError; pickle.load of a file of another format or protocol
\* raises ValueError.
load_local(idx) ==
    IF ~idx.faiss THEN "RuntimeError"
    ELSE IF idx.pkl = "absent" THEN "FileNotFoundError"
    ELSE IF idx.pkl = "unreadable" THEN "ValueError"
    ELSE "ok"

-----------------------------------------------------------------------------
(* What a run shows, logs and calls.                                       *)

Msg(kind, text, db) == [kind |-> kind, text |-> text, db |-> db]

NotFoundError ==
    Msg("st.error",
        "Vector store file not found. Please upload and process your PDF files.",
        <<>>)
LoadError == Msg("st.error", "Error loading vector store: ", <<>>)
NoFilesError == Msg("st.error", "Please upload at least one PDF file.", <<>>)
Success ==
    Msg("st.success", "Processing complete. You can now ask questions.", <<>>)
\* st.write("Reply: ", ...): the answer of the chain over the documents
\* similarity_search took from the loaded store db
Reply(db) == Msg("st.write", "Reply: ", db)
\* an exception nothing catches ends the script run; Streamlit shows it
Uncaught(exc) == Msg("st.exception", exc, <<>>)

LogLoading == "INFO Loading vector store..."
LogLoaded == "INFO Vector store loaded successfully."
LogLoadError == "ERROR Error loading vector store: "

\* the calls that go to the hosted embedding and chat-completion APIs
HostedCalls == {"embed_query", "chat_completion", "embed_documents"}
\* the calls that read or write the folder
IndexCalls == {"load_local", "save_local"}
QueryCalls == {"load_local", "embed_query", "chat_completion"}
ProcessCalls == {"PdfReader", "split_text", "embed_documents", "save_local"}

Has(seq, x) == \E i \in 1..Len(seq) : seq[i] = x
Count(seq, x) == Cardinality({i \in 1..Len(seq) : seq[i] = x})

-----------------------------------------------------------------------------
(* user_input (lines 90-112): what it shows, logs and calls, the exception *)
(* it lets through ("none" if it returns), and the folder it leaves.       *)

\* variant: no except clause, every exception of load_local gets through
user_input_no_except(idx) ==
    LET r == load_local(idx)
    IN  IF r = "ok"
        THEN [shown |-> <<Reply(idx.texts)>>,
              logged |-> <<LogLoading, LogLoaded>>,
              called |-> <<"load_local", "embed_query", "chat_completion">>,
              raised |-> "none", index |-> idx]
        ELSE [shown |-> <<Uncaught(r)>>, logged |-> <<LogLoading>>,
              called |-> <<"load_local">>, raised |-> r, index |-> idx]

\* variant: a folder that cannot be loaded is reported missing and removed
user_input_cleanup(idx) ==
    LET r == load_local(idx)
    IN  IF r = "ok"
        THEN [shown |-> <<Reply(idx.texts)>>,
              logged |-> <<LogLoading, LogLoaded>>,
              called |-> <<"load_local", "embed_query", "chat_completion">>,
              raised |-> "none", index |-> idx]
        ELSE [shown |-> <<NotFoundError>>, logged |-> <<LogLoading>>,
              called |-> <<"load_local">>, raised |-> "none",
              index |-> AbsentIndex]

user_input(idx) ==
    LET r == load_local(idx)
    IN  IF r = "FileNotFoundError"                       \* lines 99-102
        THEN [shown |-> <<NotFoundError>>, logged |-> <<LogLoading>>,
              called |-> <<"load_local">>, raised |-> "none", index |-> idx]
        ELSE IF r = "ValueError"                         \* lines 103-106
        THEN [shown |-> <<LoadError>>,
              logged |-> <<LogLoading, LogLoadError>>,
              called |-> <<"load_local">>, raised |-> "none", index |-> idx]
        ELSE IF r # "ok"                                 \* not caught
        THEN [shown |-> <<Uncaught(r)>>, logged |-> <<LogLoading>>,
              called |-> <<"load_local">>, raised |-> r, index |-> idx]
        ELSE [shown |-> <<Reply(idx.texts)>>,            \* lines 108-112
              logged |-> <<LogLoading, LogLoaded>>,
              called |-> <<"load_local", "embed_query", "chat_completion">>,
              raised |-> "none", index |-> idx]

-----------------------------------------------------------------------------
(* get_vector_store (lines 62-66).  FAISS.from_texts embeds the chunks and *)
(* sizes the index by len(embeddings[0]): with no chunk that is an         *)
(* IndexError, raised before save_local.  save_local replaces both files.  *)

\* variant: the new chunks are added to the store already in the folder
get_vector_store_merge(chunks, idx) ==
    IF chunks = <<>>
    THEN [index |-> idx, called |-> <<"embed_documents">>,
          raised |-> "IndexError"]
    ELSE [index |-> OkIndex(idx.texts \o chunks),
          called |-> <<"embed_documents", "save_local">>, raised |-> "none"]

get_vector_store(chunks, idx) ==
    IF chunks = <<>>
    THEN [index |-> idx, called |-> <<"embed_documents">>,
          raised |-> "IndexError"]
    ELSE [index |-> OkIndex(chunks),
          called |-> <<"embed_documents", "save_local">>, raised |-> "none"]

-----------------------------------------------------------------------------
(* main (lines 117-143): one script run.  Streamlit runs the script from   *)
(* the top on every interaction, one run at a time.                        *)

ApiKeys == {"", "key"}
Questions == {"", "question"}

\* the uploads a run is tried with: none; a scanned document (no page has
\* text); a document with no pages; two documents whose text "aa aaa" is
\* cut in two chunks; one document whose text "a\na" is one chunk
Uploads ==
    { <<>>,
      << <<NonePage, Page(<<>>)>> >>,
      << <<>> >>,
      << <<Page(<<"a", "a">>)>>, <<Page(<<SP, "a", "a", "a">>)>> >>,
      << <<Page(<<"a">>), NonePage, Page(<<NL, "a">>)>> >> }

\* if user_question and api_key:   (line 123)
\* variant: the key is not looked at
query_guard_question_only(question, key) == question # ""

query_guard(question, key) == question # "" /\ key # ""

\* if st.button(...) and api_key:   (line 134)
process_guard(pressed, key) == pressed /\ key # ""

Init ==
    /\ pc = "idle"
    /\ api_key = "" /\ user_question = "" /\ pdf_docs = <<>>
    /\ button = FALSE
    /\ index \in InitialIndexes
    /\ index0 = index
    /\ display = <<>> /\ log = <<>> /\ calls = <<>>
    /\ raw_text = <<>> /\ text_chunks = <<>> /\ chunk_windows = <<>>

\* an interaction starts a run: the widgets hold what the user left in them
StartRun ==
    /\ pc = "idle"
    /\ api_key' \in ApiKeys
    /\ user_question' \in Questions
    /\ pdf_docs' \in Uploads
    /\ button' \in BOOLEAN
    /\ index0' = index
    /\ display' = <<>> /\ log' = <<>> /\ calls' = <<>>
    /\ raw_text' = <<>> /\ text_chunks' = <<>> /\ chunk_windows' = <<>>
    /\ pc' = "query"
    /\ UNCHANGED index

\* lines 123-124, the guard true
Query ==
    /\ pc = "query"
    /\ query_guard(user_question, api_key)
    /\ LET r == user_input(index)
       IN  /\ display' = display \o r.shown
           /\ log' = log \o r.logged
           /\ calls' = calls \o r.called
           /\ index' = r.index
           /\ pc' = IF r.raised = "none" THEN "process" ELSE "idle"
    /\ UNCHANGED <<api_key, user_question, pdf_docs, button, index0,
                   raw_text, text_chunks, chunk_windows>>

\* lines 123-124, the guard false
NoQuery ==
    /\ pc = "query"
    /\ ~query_guard(user_question, api_key)
    /\ pc' = "process"
    /\ UNCHANGED <<api_key, user_question, pdf_docs, button, index, index0,
                   display, log, calls, raw_text, text_chunks, chunk_windows>>

\* lines 134-141
Process ==
    /\ pc = "process"
    /\ process_guard(button, api_key)
    /\ pdf_docs # <<>>
    /\ raw_text' = get_pdf_text(pdf_docs)
    /\ chunk_windows' = split_text(raw_text')
    /\ text_chunks' = get_text_chunks(raw_text')
    /\ LET r == get_vector_store(text_chunks', index)
       IN  /\ index' = r.index
           /\ calls' = calls \o <<"PdfReader", "split_text">> \o r.called
           /\ display' = display \o (IF r.raised = "none"
                                     THEN <<Success>>
                                     ELSE <<Uncaught(r.raised)>>)
    /\ pc' = "idle"
    /\ UNCHANGED <<api_key, user_question, pdf_docs, button, index0, log>>

\* lines 134-135, 142-143
ProcessNoFiles ==
    /\ pc = "process"
    /\ process_guard(button, api_key)
    /\ pdf_docs = <<>>
    /\ display' = Append(display, NoFilesError)
    /\ pc' = "idle"
    /\ UNCHANGED <<api_key, user_question, pdf_docs, button, index, index0,
                   log, calls, raw_text, text_chunks, chunk_windows>>

\* line 134, the guard false
NoProcess ==
    /\ pc = "process"
    /\ ~process_guard(button, api_key)
    /\ pc' = "idle"
    /\ UNCHANGED <<api_key, user_question, pdf_docs, button, index, index0,
                   display, log, calls, raw_text, text_chunks, chunk_windows>>

Next ==
    \/ StartRun
    \/ Query
    \/ NoQuery
    \/ Process
    \/ ProcessNoFiles
    \/ NoProcess

Spec == Init /\ [][Next]_vars

-----------------------------------------------------------------------------
(* The splitter on its own: every text up to MaxLen characters.            *)

InitChunks ==
    /\ pc = "split"
    /\ raw_text \in Texts
    /\ text_chunks = <<>>
    /\ chunk_windows = <<>>
    /\ api_key = "" /\ user_question = "" /\ pdf_docs = <<>>
    /\ button = FALSE
    /\ index = AbsentIndex /\ index0 = AbsentIndex
    /\ display = <<>> /\ log = <<>> /\ calls = <<>>

ApplyChunks ==
    /\ pc = "split"
    /\ chunk_windows' = split_text(raw_text)
    /\ text_chunks' = get_text_chunks(raw_text)
    /\ pc' = "done"
    /\ UNCHANGED <<api_key, user_question, pdf_docs, button, index, index0,
                   display, log, calls, raw_text>>

NextChunks == ApplyChunks

SpecChunks == InitChunks /\ [][NextChunks]_vars

-----------------------------------------------------------------------------
(* get_pdf_text on its own: up to MaxDocs documents of up to MaxPages      *)
(* pages each.                                                             *)

PageValues == {NonePage, Page(<<>>), Page(<<"a">>), Page(<<SP>>)}
Documents == SeqsUpTo(PageValues, MaxPages)
DocLists == SeqsUpTo(Documents, MaxDocs)

InitExtract ==
    /\ pc = "extract"
    /\ pdf_docs \in DocLists
    /\ raw_text = <<>>
    /\ text_chunks = <<>>
    /\ chunk_windows = <<>>
    /\ api_key = "" /\ user_question = ""
    /\ button = FALSE
    /\ index = AbsentIndex /\ index0 = AbsentIndex
    /\ display = <<>> /\ log = <<>> /\ calls = <<>>

ApplyExtract ==
    /\ pc = "extract"
    /\ raw_text' = get_pdf_text(pdf_docs)
    /\ pc' = "done"
    /\ UNCHANGED <<api_key, user_question, pdf_docs, button, index, index0,
                   display, log, calls, text_chunks, chunk_windows>>

NextExtract == ApplyExtract

SpecExtract == InitExtract /\ [][NextExtract]_vars

-----------------------------------------------------------------------------
(* Properties.                                                             *)

Overlap(w1, w2) == IF w1.hi > w2.lo THEN w1.hi - w2.lo ELSE 0

ChunksAreWindows ==
    /\ Len(text_chunks) = Len(chunk_windows)
    /\ \A i \in 1..Len(chunk_windows) :
          /\ 0 <= chunk_windows[i].lo
          /\ chunk_windows[i].lo < chunk_windows[i].hi
          /\ chunk_windows[i].hi <= Len(raw_text)
          /\ WinLen(chunk_windows[i]) <= chunk_size
          /\ text_chunks[i] = WinText(raw_text, chunk_windows[i])

Covered(p) ==
    \E i \in 1..Len(chunk_windows) :
        chunk_windows[i].lo < p /\ p <= chunk_windows[i].hi

\* C1 (as claimed): every chunk is a window of the text of at most
\* chunk_size characters, every two consecutive chunks overlap by exactly
\* chunk_overlap characters, and the chunks cover the whole text.
C1_FixedOverlapWindows ==
    pc = "done" =>
        /\ ChunksAreWindows
        /\ \A i \in 1..(Len(chunk_windows) - 1) :
              chunk_windows[i].hi - chunk_windows[i + 1].lo = chunk_overlap
        /\ \A p \in 1..Len(raw_text) : Covered(p)

\* C1 (amended): every chunk is a non-empty window of the text of at most
\* chunk_size characters, the chunks come in text order, every two
\* consecutive chunks overlap by at most chunk_overlap characters (possibly
\* by none), and the chunks cover every character that is not whitespace.
C1_BoundedOverlapWindows ==
    pc = "done" =>
        /\ ChunksAreWindows
        /\ \A i \in 1..(Len(chunk_windows) - 1) :
              /\ chunk_windows[i].lo <= chunk_windows[i + 1].lo
              /\ chunk_windows[i].hi <= chunk_windows[i + 1].hi
              /\ Overlap(chunk_windows[i], chunk_windows[i + 1]) <= chunk_overlap
        /\ \A p \in 1..Len(raw_text) :
              raw_text[p] \notin Whitespace => Covered(p)

\* a text cut in several chunks, one pair overlapping by the full
\* chunk_overlap, another pair not overlapping at all
C1_Witness ==
    /\ pc = "done"
    /\ Len(chunk_windows) >= 3
    /\ \E i \in 1..(Len(chunk_windows) - 1) :
          Overlap(chunk_windows[i], chunk_windows[i + 1]) = chunk_overlap
    /\ \E i \in 1..(Len(chunk_windows) - 1) :
          Overlap(chunk_windows[i], chunk_windows[i + 1]) = 0

Queried == pc # "query" /\ user_question # "" /\ api_key # ""

NoReply == \A i \in 1..Len(display) : display[i].kind # "st.write"
NoException == \A i \in 1..Len(display) : display[i].kind # "st.exception"

\* C2: a query made while the folder faiss_index does not exist shows the
\* error "Vector store file not found. ..." and returns without a
\* similarity search, a chat-completion call or a reply.
C2_MissingIndexReported ==
    (Queried /\ index0 = AbsentIndex) =>
        /\ Has(display, NotFoundError)
        /\ ~Has(calls, "embed_query")
        /\ ~Has(calls, "chat_completion")
        /\ NoReply

AllPagesEmpty(docs) ==
    \A d \in 1..Len(docs) : \A p \in 1..Len(docs[d]) :
        docs[d][p].none \/ docs[d][p].text = <<>>

\* C3: a processing run over documents none of whose pages has text (or that
\* have no pages) yields the empty document text and ends without an
\* exception.
C3_EmptyDocumentsNoCrash ==
    (pc = "idle" /\ Has(calls, "PdfReader") /\ AllPagesEmpty(pdf_docs)) =>
        /\ raw_text = <<>>
        /\ NoException

\* C4: when load_local raises ValueError, user_input shows "Error loading
\* vector store: ...", logs it, and returns: load_local was called once, no
\* similarity search and no chat-completion call was made, no reply is
\* shown, and the folder is as it was until the processing step.
C4_LoadErrorReported ==
    (Queried /\ load_local(index0) = "ValueError") =>
        /\ Len(display) >= 1 /\ display[1] = LoadError
        /\ log = <<LogLoading, LogLoadError>>
        /\ Count(calls, "load_local") = 1
        /\ ~Has(calls, "embed_query")
        /\ ~Has(calls, "chat_completion")
        /\ NoReply
        /\ (pc = "process" => index = index0 /\ calls = <<"load_local">>)

C4_Witness ==
    /\ pc = "process"
    /\ Queried
    /\ load_local(index0) = "ValueError"
    /\ display = <<LoadError>>

\* C5: a step that changes the folder or completes a processing run leaves
\* in the folder exactly the chunks of that run's upload, whatever the
\* folder held before.
C5_IndexOverwritten ==
    [][ (index' # index \/ (Has(display', Success) /\ ~Has(display, Success)))
        => /\ index' = OkIndex(text_chunks')
           /\ text_chunks' = get_text_chunks(get_pdf_text(pdf_docs))
           /\ Has(display', Success) ]_vars

\* a run completed over a folder that held the chunks of another upload
C5_Witness ==
    /\ pc = "idle"
    /\ Has(display, Success)
    /\ index0.pkl = "ok"
    /\ index0.texts # <<>>
    /\ \A i \in 1..Len(index0.texts) : ~Has(index.texts, index0.texts[i])
    /\ index = OkIndex(text_chunks)

RECURSIVE SumTo(_, _)
SumTo(f, n) == IF n = 0 THEN 0 ELSE f[n] + SumTo(f, n - 1)

PageLen(page) == IF page.none THEN 0 ELSE Len(page.text)
DocLen(doc) == SumTo([k \in 1..Len(doc) |-> PageLen(doc[k])], Len(doc))
\* the number of characters extracted before page p of document d
PageOffset(docs, d, p) ==
    SumTo([k \in 1..(d - 1) |-> DocLen(docs[k])], d - 1)
    + SumTo([k \in 1..(p - 1) |-> PageLen(docs[d][k])], p - 1)

\* C6: the text get_pdf_text returns is as long as all page texts together,
\* and the text of each page stands in it right after the texts of the
\* documents before it and of the pages before it in its document; a page
\* without text (None or "") takes no room.
C6_ConcatenationInOrder ==
    pc = "done" =>
        /\ Len(raw_text)
             = SumTo([k \in 1..Len(pdf_docs) |-> DocLen(pdf_docs[k])],
                     Len(pdf_docs))
        /\ \A d \in 1..Len(pdf_docs) : \A p \in 1..Len(pdf_docs[d]) :
              LET off == PageOffset(pdf_docs, d, p)
              IN  ~pdf_docs[d][p].none =>
                      SubSeq(raw_text, off + 1, off + PageLen(pdf_docs[d][p]))
                        = pdf_docs[d][p].text

\* two documents; pages with different texts, a None page and a "" page
C6_Witness ==
    /\ pc = "done"
    /\ Len(pdf_docs) = 2
    /\ \E d \in 1..2 : \E p \in 1..Len(pdf_docs[d]) : pdf_docs[d][p] = NonePage
    /\ \E d \in 1..2 : \E p \in 1..Len(pdf_docs[d]) : pdf_docs[d][p] = Page(<<>>)
    /\ raw_text = <<SP, "a">>

\* C7: with an empty API key a run calls nothing and leaves the folder as it
\* was; the calls of the query step are made only in a run whose question
\* and key are both non-empty, those of the processing step only in a run
\* whose button was pressed with a non-empty key.
C7_NothingWithoutKey ==
    /\ api_key = "" => (calls = <<>> /\ index = index0)
    /\ (\E c \in QueryCalls : Has(calls, c))
          => (user_question # "" /\ api_key # "")
    /\ (\E c \in ProcessCalls : Has(calls, c)) => (button /\ api_key # "")

\* a finished run with a question, files and the button, but no key
C7_Witness ==
    /\ pc = "idle"
    /\ api_key = ""
    /\ user_question # ""
    /\ button
    /\ pdf_docs # <<>>
    /\ calls = <<>>

\* C8: a run with the button pressed, a key and no uploaded file shows
\* "Please upload at least one PDF file.", calls neither extraction nor
\* chunking nor embedding, shows no success message and leaves the folder as
\* it was.
C8_NoFilesReported ==
    (pc = "idle" /\ button /\ api_key # "" /\ pdf_docs = <<>>) =>
        /\ Has(display, NoFilesError)
        /\ \A c \in ProcessCalls : ~Has(calls, c)
        /\ ~Has(display, Success)
        /\ index = index0

\* C9: in a run with a question, a key, files and the button pressed, the
\* query step comes first and the processing step follows it: the question
\* is answered from the folder as it was when the run started, or gets the
\* missing-index error if there was none.
C9_QueryBeforeProcessing ==
    (pc = "idle" /\ user_question # "" /\ api_key # "" /\ button
       /\ pdf_docs # <<>>) =>
        /\ Len(calls) >= 1 /\ calls[1] = "load_local"
        /\ Has(calls, "PdfReader")
        /\ load_local(index0) = "ok" => display[1] = Reply(index0.texts)
        /\ index0 = AbsentIndex => display[1] = NotFoundError

\* C10: as long as a run has called load_local and not save_local, the
\* folder is as it was when the run started, whatever the query came to.
C10_QueryKeepsIndex ==
    (Has(calls, "load_local") /\ ~Has(calls, "save_local")) => index = index0

\* a reply was shown from a folder holding chunks, and the folder is the same
C10_Witness ==
    /\ pc = "process"
    /\ index.texts # <<>>
    /\ display = <<Reply(index.texts)>>
    /\ index = index0

====
